---------------------------- MODULE Spec2Model ----------------------------
(***************************************************************************)
(* Storefront client of the aradagri repository: the cart page             *)
(* (src/src/pages/CartPage.tsx), the checkout page                         *)
(* (src/src/pages/CheckoutPage.tsx) and the pricing computation both       *)
(* views perform on every render.                                          *)
(*                                                                         *)
(* Every async handler is cut at its await points: the code from the       *)
(* invocation to the first await is one action, and the code that runs     *)
(* when the awaited fetch settles is another.  The values a handler closed *)
(* over when it was invoked travel with the pending request.               *)
(***************************************************************************)
EXTENDS Integers, Sequences, FiniteSets, TLC

VARIABLES
    lineItems,      \* pricing: the item list handed to the calculator
    summary,        \* pricing: what a view computed from lineItems
    token,          \* localStorage "token"
    guestToken,     \* localStorage "guestToken"
    serverQty,      \* backend: quantity held for each cart item
    cartPage,       \* CartPage useState: cartItems, loading, error, cartId
    checkout,       \* CheckoutPage useState
    route,          \* what navigate() was last called with
    effects,        \* useEffect callbacks of mounted pages still to run
    pending,        \* requests in flight, with their handler's closure
    sent,           \* number of requests issued so far
    calls,          \* number of handler invocations by the user so far
    cards,          \* ProductCard useState and last toast, per card
    catalog,        \* FeaturedProductsSection useState: products, loading
    serverGuests,   \* backend: number of guest carts created so far
    last            \* the handler step that ran last, and how it ended

vars == <<lineItems, summary, token, guestToken, serverQty, cartPage,
          checkout, route, effects, pending, sent, calls, cards,
          catalog, serverGuests, last>>

Null == "null"

(***************************************************************************)
(* Bounds of the model.                                                    *)
(***************************************************************************)
MaxLines == 2
MaxQty == 2
MaxCalls == 2

(***************************************************************************)
(* Pricing (CartPage.tsx 211-217, CheckoutPage.tsx 108-111).               *)
(***************************************************************************)
FreeShippingThreshold == 1000000
ShippingFee == 50000

\* subtotal * 0.09 is an IEEE-754 double product.  0.09 is the double
\* M * 2^-56 with M = 6485183463413514, held here in base-256 limbs, least
\* significant first.
LimbBase == 256
FractionBits == 56
MantissaBits == 53
TaxRateLimbs == <<10, 215, 163, 112, 61, 10, 23>>
ProductLimbs == 10

\* limbs of n * TaxRateLimbs, least significant first (schoolbook multiply)
RECURSIVE MulLimbs(_, _, _)
MulLimbs(n, i, carry) ==
    IF i > ProductLimbs THEN <<>>
    ELSE LET m == IF i <= Len(TaxRateLimbs) THEN TaxRateLimbs[i] ELSE 0
             t == n * m + carry
         IN  <<t % LimbBase>> \o MulLimbs(n, i + 1, t \div LimbBase)

RECURSIVE Pow2(_)
Pow2(k) == IF k = 0 THEN 1 ELSE 2 * Pow2(k - 1)

\* the product as bits, bit 0 least significant
ProductBits(n) ==
    LET limbs == MulLimbs(n, 1, 0)
    IN  [b \in 0..(8 * ProductLimbs - 1) |->
            (limbs[(b \div 8) + 1] \div Pow2(b % 8)) % 2]

\* Math.round(n * 0.09): the product rounded to 53 significant bits, ties to
\* even (the double multiply), then to the nearest integer, ties towards
\* +Infinity (Math.round).
\* variant: halves rounded down instead of up
RoundedTaxBadTies(n) ==
    (9 * n + 49) \div 100

RoundedTax(n) ==
    LET P    == ProductBits(n)
        top  == 8 * ProductLimbs - 1
        set  == {b \in 0..top : P[b] = 1}
    IN  IF set = {} THEN 0
        ELSE
        LET len    == (CHOOSE b \in set : \A c \in set : c <= b) + 1
            k      == IF len > MantissaBits THEN len - MantissaBits ELSE 0
            X      == [j \in 0..MantissaBits |->
                          IF j + k <= top THEN P[j + k] ELSE 0]
            guard  == k > 0 /\ P[k - 1] = 1
            sticky == \E b \in 0..top : b < k - 1 /\ P[b] = 1
            up     == guard /\ (sticky \/ X[0] = 1)
            R      == [j \in 0..MantissaBits |->
                          IF up /\ (\A i \in 0..MantissaBits : i < j => X[i] = 1)
                          THEN 1 - X[j] ELSE X[j]]
            f      == FractionBits - k
            \* integer part of R * 2^-f, and the bit worth one half
            IntBits == {j \in 0..MantissaBits : j >= f /\ R[j] = 1}
            half   == IF f >= 1 /\ f - 1 <= MantissaBits THEN R[f - 1] ELSE 0
            RECURSIVE SumBits(_)
            SumBits(S) == IF S = {} THEN 0
                          ELSE LET j == CHOOSE j \in S : TRUE
                               IN  Pow2(j - f) + SumBits(S \ {j})
        IN  SumBits(IntBits) + half

\* Array.prototype.reduce((sum, item) => sum + item.price * item.quantity, 0)
RECURSIVE Reduce(_, _)
Reduce(list, sum) ==
    IF list = <<>> THEN sum
    ELSE Reduce(Tail(list), sum + Head(list).price * Head(list).quantity)

\* variant: the comparison of line 215 turned around
ShippingFlipped(subtotal) ==
    IF subtotal < FreeShippingThreshold THEN 0 ELSE ShippingFee

\* variant: free shipping from the threshold on
ShippingInclusive(subtotal) ==
    IF subtotal >= FreeShippingThreshold THEN 0 ELSE ShippingFee

Shipping(subtotal) ==
    IF subtotal > FreeShippingThreshold THEN 0 ELSE ShippingFee

\* CartPage.tsx 211-217
CartPagePricing(list) ==
    LET subtotal == Reduce(list, 0)
        shipping == Shipping(subtotal)
        tax      == RoundedTax(subtotal)
    IN  [subtotal |-> subtotal, shipping |-> shipping, tax |-> tax,
         total |-> subtotal + shipping + tax]

\* variant: the checkout view taxes the shipping fee too
CheckoutPagePricingTaxedShipping(list) ==
    LET subtotal == Reduce(list, 0)
        shipping == Shipping(subtotal)
        tax      == RoundedTax(subtotal + shipping)
    IN  [subtotal |-> subtotal, shipping |-> shipping, tax |-> tax,
         total |-> subtotal + shipping + tax]

\* CheckoutPage.tsx 108-111
CheckoutPagePricing(list) ==
    LET subtotal == Reduce(list, 0)
        shipping == Shipping(subtotal)
        tax      == RoundedTax(subtotal)
    IN  [subtotal |-> subtotal, shipping |-> shipping, tax |-> tax,
         total |-> subtotal + shipping + tax]

(***************************************************************************)
(* State after construction: the useState initial values of both pages.    *)
(***************************************************************************)
\* CartPage.tsx 62-65
CartPageInitial ==
    [cartItems |-> <<>>, loading |-> TRUE, error |-> Null, cartId |-> Null]

\* CheckoutPage.tsx 37-45
CheckoutInitial ==
    [cartItems |-> <<>>, cartId |-> Null, addresses |-> <<>>,
     loading |-> TRUE, submitting |-> FALSE, error |-> Null,
     selectedAddressId |-> "", paymentMethod |-> "cash_on_delivery",
     notes |-> ""]

NoSummary == [view |-> "none", subtotal |-> 0, shipping |-> 0, tax |-> 0,
              total |-> 0]

NoStep == [op |-> "none"]

\* no product card is mounted
NoCards == <<>>

\* CheckoutPage.tsx 447-448
CatalogInitial == [products |-> <<>>, loading |-> TRUE]

\* navigate(path, {state: {orderId}})
Route(path, orderId) == [path |-> path, orderId |-> orderId]

NoRoute == Route(Null, Null)

(***************************************************************************)
(* Pricing specification: the calculator applied to bounded item lists.    *)
(***************************************************************************)
PriceChoices == {50, 100000, 150000, 250000, 1000000, 1000001}

LineItemLists ==
    UNION {[1..n -> [price : PriceChoices, quantity : 1..MaxQty]] :
              n \in 0..MaxLines}

PricingInit ==
    /\ lineItems \in LineItemLists
    /\ summary = NoSummary
    /\ token = Null
    /\ guestToken = Null
    /\ serverQty = <<>>
    /\ cartPage = CartPageInitial
    /\ checkout = CheckoutInitial
    /\ route = NoRoute
    /\ effects = {}
    /\ pending = {}
    /\ sent = 0
    /\ calls = 0
    /\ cards = NoCards
    /\ catalog = CatalogInitial
    /\ serverGuests = 0
    /\ last = NoStep

\* the cart view renders its order summary from the item list
CartPageRender ==
    /\ summary' = [view |-> "cart"] @@ CartPagePricing(lineItems)
    /\ UNCHANGED <<lineItems, token, guestToken, serverQty, cartPage,
                   checkout, route, effects, pending, sent, calls, cards,
                   catalog, serverGuests, last>>

\* the checkout view renders its order summary from the item list
CheckoutPageRender ==
    /\ summary' = [view |-> "checkout"] @@ CheckoutPagePricing(lineItems)
    /\ UNCHANGED <<lineItems, token, guestToken, serverQty, cartPage,
                   checkout, route, effects, pending, sent, calls, cards,
                   catalog, serverGuests, last>>

PricingNext == CartPageRender \/ CheckoutPageRender

SpecPricing == PricingInit /\ [][PricingNext]_vars

(***************************************************************************)
(* Requests and responses.                                                 *)
(***************************************************************************)
\* the value of API_BASE_URL (src/lib/api-config), opaque here
ApiBaseUrl == "https://api.example/api"

Url(base, path, guest) == [base |-> base, path |-> path, guestToken |-> guest]

\* "Content-Type": "application/json", and Authorization when a token is read
JsonHeaders(tok) == [contentType |-> TRUE, authorization |-> tok]

NoBody == [kind |-> "none"]

NoClosure == [itemId |-> "", newQuantity |-> 0, cartItems |-> <<>>,
              cartId |-> Null, token |-> Null]

\* what fetch() can settle with: a rejection (network failure), or a Response
\* with its ok flag, whose json() throws or yields an envelope
NoData == [present |-> FALSE, id |-> Null, guestToken |-> Null,
           hasItems |-> FALSE, items |-> <<>>, isArray |-> FALSE,
           list |-> <<>>]

Rejected == [net |-> "rejected", ok |-> FALSE, json |-> FALSE,
             success |-> FALSE, message |-> Null, data |-> NoData]

HttpError == [net |-> "settled", ok |-> FALSE, json |-> TRUE,
              success |-> FALSE, message |-> Null, data |-> NoData]

InvalidJson == [net |-> "settled", ok |-> TRUE, json |-> FALSE,
                success |-> FALSE, message |-> Null, data |-> NoData]

Envelope(success, data) == [net |-> "settled", ok |-> TRUE, json |-> TRUE,
                            success |-> success, message |-> Null,
                            data |-> data]

(***************************************************************************)
(* The backend's cart, as far as the client can observe it: the cart id    *)
(* and, per item, the product and the quantity held.                       *)
(***************************************************************************)
ServerCartId == "cart-1"
ServerItemIds == <<"item-a", "item-b">>

ServerProduct(itemId) ==
    IF itemId = "item-a"
    THEN [id |-> "prod-a", title |-> "Product A", price |-> 250000,
          images |-> <<"/a.jpg">>, category |-> "Seeds"]
    ELSE [id |-> "prod-b", title |-> "Product B", price |-> 600000,
          images |-> <<>>, category |-> ""]

RECURSIVE SelectSeq2(_, _)
SelectSeq2(ids, held) ==
    IF ids = <<>> THEN <<>>
    ELSE IF Head(ids) \in DOMAIN held
         THEN <<[id |-> Head(ids), quantity |-> held[Head(ids)],
                 product |-> ServerProduct(Head(ids))]>>
              \o SelectSeq2(Tail(ids), held)
         ELSE SelectSeq2(Tail(ids), held)

\* GET /cart answered from the held cart
ServerCartData ==
    [NoData EXCEPT !.present = TRUE, !.id = ServerCartId, !.hasItems = TRUE,
                   !.items = SelectSeq2(ServerItemIds, serverQty)]

\* every way GET /cart can settle
CartResponses ==
    {Rejected, HttpError, InvalidJson,
     Envelope(FALSE, NoData), Envelope(TRUE, NoData),
     Envelope(FALSE, ServerCartData),
     Envelope(TRUE, [ServerCartData EXCEPT !.hasItems = FALSE, !.items = <<>>]),
     Envelope(TRUE, ServerCartData)}

\* every way PUT/DELETE /cart/items/:id can settle; the client reads no body
ItemResponses(itemId) ==
    {Rejected, HttpError} \cup
    (IF itemId \in DOMAIN serverQty THEN {Envelope(TRUE, NoData)} ELSE {})

\* the held cart after the request of a pending handler was answered by r
ServerAfter(op, r) ==
    IF ~(r.net = "settled" /\ r.ok) THEN serverQty
    ELSE IF op.request.method = "PUT"
         THEN [serverQty EXCEPT ![op.closure.itemId] = op.request.body.quantity]
    ELSE IF op.request.method = "DELETE"
         THEN [i \in DOMAIN serverQty \ {op.closure.itemId} |-> serverQty[i]]
    ELSE serverQty

(***************************************************************************)
(* CartPage.tsx                                                            *)
(***************************************************************************)
\* user-visible messages (Persian in the source, glossed here)
FetchCartError == "Error loading the cart"
UpdateQuantityError == "Error updating the quantity"
RemoveItemError == "Error removing the product"

PlaceholderImage == "/images/placeholder.jpg"
Uncategorised == "Uncategorised"

\* CartPage.tsx 39-58
mockCartItems ==
    <<[id |-> "1", productId |-> "1", name |-> "Organic fertiliser",
       price |-> 250000, quantity |-> 2, image |-> "/images/fertilizer.jpg",
       category |-> "Fertiliser"],
      [id |-> "2", productId |-> "2", name |-> "High-quality wheat seed",
       price |-> 150000, quantity |-> 1, image |-> "/images/seeds.jpg",
       category |-> "Seed"]>>

\* CartPage.tsx 103-111: the API item flattened into the view's CartItem
MapApiItem(item) ==
    [id |-> item.id,
     productId |-> item.product.id,
     name |-> item.product.title,
     price |-> item.product.price,
     quantity |-> item.quantity,
     image |-> IF item.product.images # <<>> /\ item.product.images[1] # ""
               THEN item.product.images[1] ELSE PlaceholderImage,
     category |-> IF item.product.category # ""
                  THEN item.product.category ELSE Uncategorised]

MapApiItems(apiItems) == [i \in DOMAIN apiItems |-> MapApiItem(apiItems[i])]

\* CartPage.tsx 159-163, 169-173: cartItems.map(...)
WithQuantity(list, itemId, newQuantity) ==
    [i \in DOMAIN list |->
        IF list[i].id = itemId
        THEN [list[i] EXCEPT !.quantity = newQuantity] ELSE list[i]]

\* CartPage.tsx 201, 207: cartItems.filter(...)
RECURSIVE Without(_, _)
Without(list, itemId) ==
    IF list = <<>> THEN <<>>
    ELSE IF Head(list).id # itemId
         THEN <<Head(list)>> \o Without(Tail(list), itemId)
         ELSE Without(Tail(list), itemId)

\* CartPage.tsx 87-89 (and CheckoutPage.tsx 64-66)
CartUrl == Url(ApiBaseUrl, <<"cart">>, guestToken)

Issue(handler, origin, request, closure) ==
    [n |-> sent + 1, handler |-> handler, origin |-> origin,
     request |-> request, closure |-> closure]

CartFrame ==
    UNCHANGED <<lineItems, summary, checkout, route, cards, catalog,
                serverGuests>>

\* CartPage.tsx 71-91: fetchCart up to its await, run once by useEffect (67-69)
FetchCart ==
    /\ "CartPage" \in effects
    /\ effects' = effects \ {"CartPage"}
    /\ cartPage' = [cartPage EXCEPT !.loading = TRUE, !.error = Null]
    /\ pending' = pending \cup
          {Issue("fetchCart", "fetchCart",
                 [method |-> "GET", url |-> CartUrl,
                  headers |-> JsonHeaders(token), body |-> NoBody],
                 NoClosure)}
    /\ sent' = sent + 1
    /\ last' = [op |-> "fetchCart"]
    /\ UNCHANGED <<token, guestToken, serverQty, calls>>
    /\ CartFrame

\* !response.ok, or fetch itself rejected
Failed(r) == r.net = "rejected" \/ ~r.ok

\* what a settle step records: the pending handler, the response, and the
\* state it found
Settled(op, r) ==
    [op |-> op.handler \o ".settled", call |-> op, response |-> r,
     failed |-> Failed(r),
     before |-> [cartItems |-> cartPage.cartItems, error |-> cartPage.error,
                 serverQty |-> serverQty]]

\* CartPage.tsx 93-126: fetchCart from the settled fetch to its end
FetchCartSettled(page, r) ==
    IF r.net = "rejected" \/ ~r.ok \/ ~r.json
    THEN \* fetch rejected, or line 94 threw, or response.json() threw
         [page EXCEPT !.error = FetchCartError, !.cartItems = mockCartItems,
                      !.loading = FALSE]
    ELSE IF r.success /\ r.data.present
    THEN IF r.data.hasItems
         THEN [page EXCEPT !.cartId = r.data.id,
                           !.cartItems = MapApiItems(r.data.items),
                           !.loading = FALSE]
         ELSE \* apiCart.items.map on undefined throws after setCartId
              [page EXCEPT !.cartId = r.data.id, !.error = FetchCartError,
                           !.cartItems = mockCartItems, !.loading = FALSE]
    ELSE [page EXCEPT !.cartItems = mockCartItems, !.loading = FALSE]

FetchCartSettle ==
    \E op \in pending : \E r \in CartResponses :
        /\ op.handler = "fetchCart"
        /\ pending' = pending \ {op}
        /\ cartPage' = FetchCartSettled(cartPage, r)
        /\ last' = Settled(op, r)
        /\ UNCHANGED <<token, guestToken, serverQty, effects, sent, calls>>
        /\ CartFrame

ItemUrl(itemId) == Url(ApiBaseUrl, <<"cart", "items", itemId>>, Null)

\* CartPage.tsx 177-194: removeItem up to its await
RemoveItemCall(origin, itemId) ==
    Issue("removeItem", origin,
          [method |-> "DELETE", url |-> ItemUrl(itemId),
           headers |-> JsonHeaders(token), body |-> NoBody],
          [NoClosure EXCEPT !.itemId = itemId,
                            !.cartItems = cartPage.cartItems])

\* variant: without the delegation of lines 130-133
UpdateQuantityAlwaysPuts(itemId, newQuantity) ==
    Issue("updateQuantity", "updateQuantity",
          [method |-> "PUT", url |-> ItemUrl(itemId),
           headers |-> JsonHeaders(token),
           body |-> [kind |-> "quantity", quantity |-> newQuantity]],
          [NoClosure EXCEPT !.itemId = itemId, !.newQuantity = newQuantity,
                            !.cartItems = cartPage.cartItems])

\* CartPage.tsx 129-152: updateQuantity up to its await
UpdateQuantityCall(itemId, newQuantity) ==
    IF newQuantity <= 0
    THEN RemoveItemCall("updateQuantity", itemId)
    ELSE Issue("updateQuantity", "updateQuantity",
               [method |-> "PUT", url |-> ItemUrl(itemId),
                headers |-> JsonHeaders(token),
                body |-> [kind |-> "quantity", quantity |-> newQuantity]],
               [NoClosure EXCEPT !.itemId = itemId,
                                 !.newQuantity = newQuantity,
                                 !.cartItems = cartPage.cartItems])

\* the cart list is on screen: CartPage.tsx 219, 239
CartListShown == ~cartPage.loading /\ cartPage.cartItems # <<>>

\* CartPage.tsx 325-343: the plus and minus buttons of a rendered item
UpdateQuantity ==
    \E i \in DOMAIN cartPage.cartItems : \E d \in {1, -1} :
        LET item == cartPage.cartItems[i]
            newQuantity == item.quantity + d
            op == UpdateQuantityCall(item.id, newQuantity)
        IN  /\ CartListShown
            /\ calls < MaxCalls
            /\ calls' = calls + 1
            /\ newQuantity <= MaxQty
            /\ pending' = pending \cup {op}
            /\ sent' = sent + 1
            /\ last' = [op |-> "updateQuantity", itemId |-> item.id,
                        newQuantity |-> newQuantity, issued |-> op]
            /\ UNCHANGED <<token, guestToken, serverQty, cartPage, effects>>
            /\ CartFrame

\* CartPage.tsx 347-352: the remove button of a rendered item
RemoveItem ==
    \E i \in DOMAIN cartPage.cartItems :
        LET item == cartPage.cartItems[i]
            op == RemoveItemCall("removeItem", item.id)
        IN  /\ CartListShown
            /\ calls < MaxCalls
            /\ calls' = calls + 1
            /\ pending' = pending \cup {op}
            /\ sent' = sent + 1
            /\ last' = [op |-> "removeItem", itemId |-> item.id,
                        issued |-> op]
            /\ UNCHANGED <<token, guestToken, serverQty, cartPage, effects>>
            /\ CartFrame

\* variant: the catch block keeps the list instead of applying the quantity
UpdateQuantitySettledNoOptimism(page, c, r) ==
    IF Failed(r)
    THEN [page EXCEPT !.error = UpdateQuantityError,
                      !.cartItems = c.cartItems]
    ELSE [page EXCEPT
             !.cartItems = WithQuantity(c.cartItems, c.itemId, c.newQuantity)]

\* CartPage.tsx 154-174: updateQuantity from the settled fetch to its end;
\* c is the closure of the invocation
UpdateQuantitySettled(page, c, r) ==
    IF Failed(r)
    THEN [page EXCEPT
             !.error = UpdateQuantityError,
             !.cartItems = WithQuantity(c.cartItems, c.itemId, c.newQuantity)]
    ELSE [page EXCEPT
             !.cartItems = WithQuantity(c.cartItems, c.itemId, c.newQuantity)]

\* variant: the catch block keeps the list instead of removing the item
RemoveItemSettledNoOptimism(page, c, r) ==
    IF Failed(r)
    THEN [page EXCEPT !.error = RemoveItemError, !.cartItems = c.cartItems]
    ELSE [page EXCEPT !.cartItems = Without(c.cartItems, c.itemId)]

\* CartPage.tsx 196-208: removeItem from the settled fetch to its end
RemoveItemSettled(page, c, r) ==
    IF Failed(r)
    THEN [page EXCEPT !.error = RemoveItemError,
                      !.cartItems = Without(c.cartItems, c.itemId)]
    ELSE [page EXCEPT !.cartItems = Without(c.cartItems, c.itemId)]

UpdateQuantitySettle ==
    \E op \in pending : \E r \in ItemResponses(op.closure.itemId) :
        /\ op.handler = "updateQuantity"
        /\ pending' = pending \ {op}
        /\ serverQty' = ServerAfter(op, r)
        /\ cartPage' = UpdateQuantitySettled(cartPage, op.closure, r)
        /\ last' = Settled(op, r)
        /\ UNCHANGED <<token, guestToken, effects, sent, calls>>
        /\ CartFrame

RemoveItemSettle ==
    \E op \in pending : \E r \in ItemResponses(op.closure.itemId) :
        /\ op.handler = "removeItem"
        /\ pending' = pending \ {op}
        /\ serverQty' = ServerAfter(op, r)
        /\ cartPage' = RemoveItemSettled(cartPage, op.closure, r)
        /\ last' = Settled(op, r)
        /\ UNCHANGED <<token, guestToken, effects, sent, calls>>
        /\ CartFrame

Tokens == {Null, "bearer-1"}
GuestTokens == {Null, "guest-1"}

CartInit ==
    /\ lineItems = <<>>
    /\ summary = NoSummary
    /\ token \in Tokens
    /\ guestToken \in GuestTokens
    /\ serverQty \in [{ServerItemIds[i] : i \in DOMAIN ServerItemIds} ->
                         0..MaxQty]
    /\ cartPage = CartPageInitial
    /\ checkout = CheckoutInitial
    /\ route = Route("/cart", Null)
    /\ effects = {"CartPage"}
    /\ pending = {}
    /\ sent = 0
    /\ calls = 0
    /\ cards = NoCards
    /\ catalog = CatalogInitial
    /\ serverGuests = 0
    /\ last = NoStep

CartNext ==
    \/ FetchCart
    \/ FetchCartSettle
    \/ UpdateQuantity
    \/ UpdateQuantitySettle
    \/ RemoveItem
    \/ RemoveItemSettle

SpecCart == CartInit /\ [][CartNext]_vars

(***************************************************************************)
(* CheckoutPage.tsx                                                        *)
(***************************************************************************)
\* user-visible messages (Persian in the source, glossed here)
LoadCheckoutError == "Error loading the data"
CartNotFoundError == "Cart not found"
SelectAddressError == "Please select a delivery address"
LoginFirstError == "Please sign in first"
OrderError == "Error placing the order"
OrderRetryError == "Error placing the order. Please try again."

\* CheckoutPage.tsx 56-60: no Content-Type on the two GETs
BareHeaders(tok) == [contentType |-> FALSE, authorization |-> tok]

\* CheckoutPage.tsx 74-80
MapCheckoutItem(item) ==
    [id |-> item.id,
     productId |-> item.product.id,
     name |-> item.product.title,
     price |-> item.product.price,
     quantity |-> item.quantity]

MapCheckoutItems(apiItems) ==
    [i \in DOMAIN apiItems |-> MapCheckoutItem(apiItems[i])]

\* saved addresses the backend may answer GET /address with
Address(id, isDefault) ==
    [id |-> id, title |-> "Home", fullName |-> "A. Buyer",
     street |-> "1 Main St", city |-> "Tehran", province |-> "Tehran",
     postalCode |-> "1234567890", phone |-> "09120000000",
     isDefault |-> isDefault]

AddressLists ==
    {<<>>,
     <<Address("addr-1", FALSE)>>,
     <<Address("addr-1", FALSE), Address("addr-2", TRUE)>>}

\* every way GET /cart can settle for the checkout page
CheckoutCartResponses ==
    CartResponses \cup {Envelope(TRUE, [ServerCartData EXCEPT !.id = Null])}

\* every way GET /address can settle
AddressResponses ==
    {Rejected, HttpError, InvalidJson, Envelope(FALSE, NoData),
     Envelope(TRUE, NoData)} \cup
    {Envelope(TRUE, [NoData EXCEPT !.present = TRUE, !.isArray = TRUE,
                                   !.list = l]) : l \in AddressLists}

\* every way POST /orders can settle
OrderResponses ==
    {Rejected, HttpError, InvalidJson,
     Envelope(FALSE, NoData),
     [Envelope(FALSE, NoData) EXCEPT !.message = ""],
     [Envelope(FALSE, NoData) EXCEPT !.message = "Cart is empty"],
     Envelope(TRUE, NoData),
     Envelope(TRUE, [NoData EXCEPT !.present = TRUE, !.id = "order-1"])}

CheckoutFrame ==
    UNCHANGED <<lineItems, summary, cartPage, serverQty, cards, catalog,
                serverGuests>>

\* what a checkout step found before it ran
CheckoutBefore ==
    [page |-> checkout, guestToken |-> guestToken, route |-> route,
     sent |-> sent, pending |-> pending]

\* CheckoutPage.tsx 52-68: loadCheckoutData up to its first await, run once
\* by useEffect (48-50)
LoadCheckoutData ==
    /\ "CheckoutPage" \in effects
    /\ effects' = effects \ {"CheckoutPage"}
    /\ checkout' = [checkout EXCEPT !.loading = TRUE]
    /\ pending' = pending \cup
          {Issue("loadCheckoutData.cart", "loadCheckoutData",
                 [method |-> "GET", url |-> CartUrl,
                  headers |-> BareHeaders(token), body |-> NoBody],
                 [NoClosure EXCEPT !.token = token])}
    /\ sent' = sent + 1
    /\ last' = [op |-> "loadCheckoutData"]
    /\ UNCHANGED <<token, guestToken, route, calls>>
    /\ CheckoutFrame

\* CheckoutPage.tsx 69-84: the cart response applied to the page state
CartLoaded(page, r) ==
    IF r.ok /\ r.success /\ r.data.present
    THEN IF r.data.hasItems
         THEN [page EXCEPT !.cartId = r.data.id,
                           !.cartItems = MapCheckoutItems(r.data.items)]
         ELSE [page EXCEPT !.cartId = r.data.id]
    ELSE page

\* the await of line 68 rejected, or cartResp.json() threw: lines 100-105
LoadThrew(r) == r.net = "rejected" \/ (r.ok /\ ~r.json)

LoadCaught(page) ==
    [page EXCEPT !.error = LoadCheckoutError, !.loading = FALSE]

\* variant: the addresses are requested for every visitor
FetchesAddressesAlways(c) == TRUE

\* CheckoutPage.tsx 87: if (token), on the token read at line 53
FetchesAddresses(c) == c.token # Null

\* CheckoutPage.tsx 68-88: loadCheckoutData from the settled cart fetch to
\* its second await, or to its end when there is no token
LoadCartSettle ==
    \E op \in pending : \E r \in CheckoutCartResponses :
        /\ op.handler = "loadCheckoutData.cart"
        /\ last' = [op |-> "loadCheckoutData.cart.settled", call |-> op,
                    response |-> r, before |-> CheckoutBefore]
        /\ IF LoadThrew(r)
           THEN /\ checkout' = LoadCaught(checkout)
                /\ pending' = pending \ {op}
                /\ sent' = sent
           ELSE IF FetchesAddresses(op.closure)
           THEN /\ checkout' = CartLoaded(checkout, r)
                /\ pending' = (pending \ {op}) \cup
                      {Issue("loadCheckoutData.address", "loadCheckoutData",
                             [method |-> "GET",
                              url |-> Url(ApiBaseUrl, <<"address">>, Null),
                              headers |-> BareHeaders(op.closure.token),
                              body |-> NoBody],
                             op.closure)}
                /\ sent' = sent + 1
           ELSE /\ checkout' = [CartLoaded(checkout, r) EXCEPT
                                   !.loading = FALSE]
                /\ pending' = pending \ {op}
                /\ sent' = sent
        /\ UNCHANGED <<token, guestToken, route, effects, calls>>
        /\ CheckoutFrame

\* addrData.data.find((a) => a.isDefault)
RECURSIVE FindDefault(_)
FindDefault(list) ==
    IF list = <<>> THEN Null
    ELSE IF Head(list).isDefault THEN Head(list).id
         ELSE FindDefault(Tail(list))

\* variant: loading reset on the catch path only
AddressLoadedNoFinally(page, r) ==
    IF LoadThrew(r) THEN LoadCaught(page)
    ELSE IF r.ok /\ r.success /\ r.data.isArray
    THEN LET defaultAddr == FindDefault(r.data.list)
         IN  [page EXCEPT !.addresses = r.data.list,
                          !.selectedAddressId =
                              IF defaultAddr # Null THEN defaultAddr ELSE @]
    ELSE page

\* CheckoutPage.tsx 88-105: loadCheckoutData from the settled address fetch
\* to its end
AddressLoaded(page, r) ==
    IF LoadThrew(r) THEN LoadCaught(page)
    ELSE IF r.ok /\ r.success /\ r.data.isArray
    THEN LET defaultAddr == FindDefault(r.data.list)
         IN  [page EXCEPT !.addresses = r.data.list,
                          !.selectedAddressId =
                              IF defaultAddr # Null THEN defaultAddr ELSE @,
                          !.loading = FALSE]
    ELSE [page EXCEPT !.loading = FALSE]

LoadAddressSettle ==
    \E op \in pending : \E r \in AddressResponses :
        /\ op.handler = "loadCheckoutData.address"
        /\ last' = [op |-> "loadCheckoutData.address.settled", call |-> op,
                    response |-> r, before |-> CheckoutBefore]
        /\ checkout' = AddressLoaded(checkout, r)
        /\ pending' = pending \ {op}
        /\ UNCHANGED <<token, guestToken, route, effects, sent, calls>>
        /\ CheckoutFrame

\* CheckoutPage.tsx 167, 182: the form is on screen
CheckoutFormShown ==
    /\ route.path = "/checkout"
    /\ ~checkout.loading
    /\ checkout.cartItems # <<>>

FormFrame ==
    UNCHANGED <<token, guestToken, route, effects, pending, sent, calls>>

\* CheckoutPage.tsx 222-229: a radio button of the address list
SelectAddress ==
    \E i \in DOMAIN checkout.addresses :
        /\ CheckoutFormShown
        /\ checkout.selectedAddressId # checkout.addresses[i].id
        /\ checkout' = [checkout EXCEPT
                           !.selectedAddressId = checkout.addresses[i].id]
        /\ last' = [op |-> "setSelectedAddressId"]
        /\ FormFrame
        /\ CheckoutFrame

PaymentMethods == {"credit_card", "bank_transfer", "cash_on_delivery"}

\* CheckoutPage.tsx 44: setPaymentMethod from the payment radio buttons
SelectPayment ==
    \E m \in PaymentMethods :
        /\ CheckoutFormShown
        /\ checkout.paymentMethod # m
        /\ checkout' = [checkout EXCEPT !.paymentMethod = m]
        /\ last' = [op |-> "setPaymentMethod"]
        /\ FormFrame
        /\ CheckoutFrame

NotesChoices == {"", "Ring the bell"}

\* CheckoutPage.tsx 45: setNotes from the notes field
EditNotes ==
    \E n \in NotesChoices :
        /\ CheckoutFormShown
        /\ checkout.notes # n
        /\ checkout' = [checkout EXCEPT !.notes = n]
        /\ last' = [op |-> "setNotes"]
        /\ FormFrame
        /\ CheckoutFrame

\* CheckoutPage.tsx 140: a plain string literal, not a template literal, so
\* the placeholder text itself is the start of the URL
UninterpolatedBase == "${API_BASE_URL}"

\* variant: the order carries what the form holds
OrderRequestWithSelections(tok) ==
    [method |-> "POST",
     url |-> Url(UninterpolatedBase, <<"orders">>, Null),
     headers |-> JsonHeaders(tok),
     body |-> [kind |-> "cartId", cartId |-> checkout.cartId,
               addressId |-> checkout.selectedAddressId,
               paymentMethod |-> checkout.paymentMethod,
               notes |-> checkout.notes]]

\* CheckoutPage.tsx 135-144: the order request
OrderRequest(tok) ==
    [method |-> "POST",
     url |-> Url(UninterpolatedBase, <<"orders">>, Null),
     headers |-> JsonHeaders(tok),
     body |-> [kind |-> "cartId", cartId |-> checkout.cartId]]

\* how handlePlaceOrder leaves its synchronous part (113-144)
\* variant: without the guard of lines 119-122
PlaceOrderPathNoAddressCheck ==
    IF checkout.cartId = Null THEN "no-cart"
    ELSE IF token = Null THEN "login"
    ELSE "post"

\* variant: without the guard of lines 129-133
PlaceOrderPathNoTokenCheck ==
    IF checkout.cartId = Null THEN "no-cart"
    ELSE IF checkout.selectedAddressId = "" /\ Len(checkout.addresses) > 0
         THEN "no-address"
    ELSE "post"

PlaceOrderPath ==
    IF checkout.cartId = Null THEN "no-cart"
    ELSE IF checkout.selectedAddressId = "" /\ Len(checkout.addresses) > 0
         THEN "no-address"
    ELSE IF token = Null THEN "login"
    ELSE "post"

\* CheckoutPage.tsx 113-144: handlePlaceOrder up to its await
HandlePlaceOrder(via) ==
    LET path == PlaceOrderPath
        op   == Issue("handlePlaceOrder", via, OrderRequest(token),
                      [NoClosure EXCEPT !.cartId = checkout.cartId,
                                        !.token = token])
    IN  /\ calls < MaxCalls
        /\ calls' = calls + 1
        /\ last' = [op |-> "handlePlaceOrder", via |-> via, path |-> path,
                    issued |-> op, before |-> CheckoutBefore,
                    prior |-> IF last.op = "handlePlaceOrder.settled"
                              THEN last.response ELSE Rejected,
                    retry |-> last.op = "handlePlaceOrder.settled"]
        /\ checkout' =
              CASE path = "no-cart" ->
                      [checkout EXCEPT !.error = CartNotFoundError]
                [] path = "no-address" ->
                      [checkout EXCEPT !.error = SelectAddressError]
                [] path = "login" ->
                      \* setSubmitting(true), then false again in finally
                      [checkout EXCEPT !.error = LoginFirstError,
                                       !.submitting = FALSE]
                [] path = "post" ->
                      [checkout EXCEPT !.error = Null, !.submitting = TRUE]
        /\ route' = IF path = "login" THEN Route("/login", Null) ELSE route
        /\ pending' = IF path = "post" THEN pending \cup {op} ELSE pending
        /\ sent' = IF path = "post" THEN sent + 1 ELSE sent
        /\ UNCHANGED <<token, guestToken, effects>>
        /\ CheckoutFrame

\* variant: disabled without the submitting flag
PlaceOrderDisabledOnlyByAddress ==
    Len(checkout.addresses) > 0 /\ checkout.selectedAddressId = ""

\* CheckoutPage.tsx 361: the button's disabled attribute
PlaceOrderDisabled ==
    \/ checkout.submitting
    \/ (Len(checkout.addresses) > 0 /\ checkout.selectedAddressId = "")

\* CheckoutPage.tsx 359-372: the place-order button
ClickPlaceOrder ==
    /\ CheckoutFormShown
    /\ ~PlaceOrderDisabled
    /\ HandlePlaceOrder("button")

\* handlePlaceOrder called on a page that is ready, whatever the form shows:
\* the guards of lines 114-122 are exercised by such calls
CallPlaceOrder ==
    /\ route.path = "/checkout"
    /\ ~checkout.loading
    /\ ~checkout.submitting
    /\ ~(CheckoutFormShown /\ ~PlaceOrderDisabled)
    /\ HandlePlaceOrder("call")

\* the order POST came back ok with a success envelope (146-152)
OrderAccepted(r) == r.net = "settled" /\ r.ok /\ r.json /\ r.success

\* variant: submitting not reset on the catch path
PlaceOrderSettledNoFinally(page, r) ==
    IF r.net = "rejected" \/ ~r.ok \/ ~r.json
    THEN [page EXCEPT !.error = OrderRetryError]
    ELSE IF r.success
    THEN IF r.data.present
         THEN [page EXCEPT !.submitting = FALSE]
         ELSE [page EXCEPT !.error = OrderRetryError, !.submitting = FALSE]
    ELSE [page EXCEPT !.error = IF r.message \notin {Null, ""}
                                THEN r.message ELSE OrderError,
                      !.submitting = FALSE]

\* CheckoutPage.tsx 146-164: the page state after the order fetch settled
PlaceOrderSettled(page, r) ==
    IF r.net = "rejected" \/ ~r.ok \/ ~r.json
    THEN \* fetch rejected, line 147 threw, or response.json() threw
         [page EXCEPT !.error = OrderRetryError, !.submitting = FALSE]
    ELSE IF r.success
    THEN IF r.data.present
         THEN [page EXCEPT !.submitting = FALSE]
         ELSE \* result.data.id on undefined throws at line 155
              [page EXCEPT !.error = OrderRetryError, !.submitting = FALSE]
    ELSE [page EXCEPT !.error = IF r.message \notin {Null, ""}
                                THEN r.message ELSE OrderError,
                      !.submitting = FALSE]

\* CheckoutPage.tsx 154: localStorage.removeItem("guestToken")
GuestTokenAfterOrder(r) == IF OrderAccepted(r) THEN Null ELSE guestToken

\* CheckoutPage.tsx 155: navigate("/order-success", {state: {orderId}})
RouteAfterOrder(r) ==
    IF OrderAccepted(r) /\ r.data.present
    THEN Route("/order-success", r.data.id) ELSE route

PlaceOrderSettle ==
    \E op \in pending : \E r \in OrderResponses :
        /\ op.handler = "handlePlaceOrder"
        /\ last' = [op |-> "handlePlaceOrder.settled", call |-> op,
                    response |-> r, before |-> CheckoutBefore]
        /\ checkout' = PlaceOrderSettled(checkout, r)
        /\ guestToken' = GuestTokenAfterOrder(r)
        /\ route' = RouteAfterOrder(r)
        /\ pending' = pending \ {op}
        /\ UNCHANGED <<token, effects, sent, calls>>
        /\ CheckoutFrame

CheckoutInit ==
    /\ lineItems = <<>>
    /\ summary = NoSummary
    /\ token \in Tokens
    /\ guestToken \in GuestTokens
    /\ serverQty = [id \in {ServerItemIds[i] : i \in DOMAIN ServerItemIds}
                       |-> 1]
    /\ cartPage = CartPageInitial
    /\ checkout = CheckoutInitial
    /\ route = Route("/checkout", Null)
    /\ effects = {"CheckoutPage"}
    /\ pending = {}
    /\ sent = 0
    /\ calls = 0
    /\ cards = NoCards
    /\ catalog = CatalogInitial
    /\ serverGuests = 0
    /\ last = NoStep

CheckoutNext ==
    \/ LoadCheckoutData
    \/ LoadCartSettle
    \/ LoadAddressSettle
    \/ SelectAddress
    \/ SelectPayment
    \/ EditNotes
    \/ ClickPlaceOrder
    \/ CallPlaceOrder
    \/ PlaceOrderSettle

SpecCheckout == CheckoutInit /\ [][CheckoutNext]_vars

\* useEffect runs the load once the page is mounted, and every fetch settles
SpecCheckoutFair ==
    /\ SpecCheckout
    /\ WF_vars(LoadCheckoutData)
    /\ WF_vars(LoadCartSettle)
    /\ WF_vars(LoadAddressSettle)
    /\ WF_vars(PlaceOrderSettle)

(***************************************************************************)
(* components/cards/ProductCard.tsx                                        *)
(***************************************************************************)
CardIds == {"1", "2"}

NoToast == [variant |-> "none", text |-> Null, product |-> Null]
OutOfStockToast ==
    [variant |-> "destructive", text |-> "This product is out of stock",
     product |-> Null]
AddedToast(id) ==
    [variant |-> "default", text |-> "added to the cart", product |-> id]
AddToCartErrorToast ==
    [variant |-> "destructive", text |-> "Error adding to the cart",
     product |-> Null]

\* a mounted card: its inStock prop, its useState, the last toast it raised
Card(inStock) ==
    [inStock |-> inStock, isAddingToCart |-> FALSE, toast |-> NoToast]

\* the cart lookup address: a plain string literal, then the guest token of
\* a visitor without bearer token
CardCartUrl(tok, guest) ==
    Url(UninterpolatedBase, <<"cart">>, IF tok = Null THEN guest ELSE Null)

\* the address items are posted to
AddUrl(cartId, tok, guest) ==
    Url(ApiBaseUrl, <<"cart", cartId, "items">>,
        IF tok = Null THEN guest ELSE Null)

CardFrame ==
    UNCHANGED <<lineItems, summary, serverQty, cartPage, checkout, route,
                effects, catalog>>

\* handleAddToCart up to its first await
HandleAddToCart(id) ==
    IF ~cards[id].inStock
    THEN /\ cards' = [cards EXCEPT ![id].toast = OutOfStockToast]
         /\ last' = [op |-> "handleAddToCart", card |-> id, issued |-> FALSE]
         /\ UNCHANGED <<pending, sent>>
    ELSE /\ cards' = [cards EXCEPT ![id].isAddingToCart = TRUE]
         /\ pending' = pending \cup
               {Issue("handleAddToCart.cart", "handleAddToCart",
                      [method |-> "GET",
                       url |-> CardCartUrl(token, guestToken),
                       headers |-> JsonHeaders(token), body |-> NoBody],
                      [card |-> id, token |-> token,
                       guestToken |-> guestToken])}
         /\ sent' = sent + 1
         /\ last' = [op |-> "handleAddToCart", card |-> id, issued |-> TRUE]

\* the add-to-cart button is disabled
AddToCartDisabled(id) == ~cards[id].inStock \/ cards[id].isAddingToCart

ClickAddToCart ==
    \E id \in DOMAIN cards :
        /\ ~AddToCartDisabled(id)
        /\ calls < MaxCalls
        /\ calls' = calls + 1
        /\ HandleAddToCart(id)
        /\ UNCHANGED <<token, guestToken, serverGuests>>
        /\ CardFrame

\* the guest tokens the backend hands out, in order of issue
ServerGuestTokens == <<"guest-1", "guest-2", "guest-3", "guest-4">>

\* a cart request that names no identity opens a new guest cart
OpensGuestCart(request) ==
    request.headers.authorization = Null /\ request.url.guestToken = Null

GuestCartId(guest) == "cart-of-" \o guest

\* GET /cart[?guestToken=] answered for the identity the request names
IdentityCartData(request) ==
    LET guest == IF OpensGuestCart(request)
                 THEN ServerGuestTokens[serverGuests + 1]
                 ELSE request.url.guestToken
    IN  [NoData EXCEPT !.present = TRUE,
                       !.id = IF request.headers.authorization # Null
                              THEN ServerCartId ELSE GuestCartId(guest),
                       !.guestToken = guest]

\* every way the cart lookup of handleAddToCart can settle
CartLookupResponses(request) ==
    {Rejected, HttpError, InvalidJson,
     Envelope(FALSE, NoData), Envelope(TRUE, NoData),
     Envelope(TRUE, IdentityCartData(request))}

\* !cartResponse.ok, json() threw, or !cartData.success || !cartData.data
CartLookupThrew(r) ==
    r.net = "rejected" \/ ~r.ok \/ ~r.json \/ ~r.success \/ ~r.data.present

\* !token && cartData.data.guestToken && !guestToken, on the values the
\* handler read before its await
PersistsGuestToken(c, r) ==
    c.token = Null /\ r.data.guestToken # Null /\ c.guestToken = Null

\* handleAddToCart from the settled cart lookup to its second await, or to
\* its end when the lookup failed
CartLookupSettle ==
    \E op \in pending : \E r \in CartLookupResponses(op.request) :
        /\ op.handler = "handleAddToCart.cart"
        /\ serverGuests < Len(ServerGuestTokens)
        /\ LET c == op.closure
               guest == IF PersistsGuestToken(c, r)
                        THEN r.data.guestToken ELSE c.guestToken
           IN  IF CartLookupThrew(r)
               THEN /\ cards' = [cards EXCEPT
                                    ![c.card].toast = AddToCartErrorToast,
                                    ![c.card].isAddingToCart = FALSE]
                    /\ pending' = pending \ {op}
                    /\ UNCHANGED <<guestToken, sent>>
               ELSE /\ guestToken' = IF PersistsGuestToken(c, r)
                                     THEN r.data.guestToken ELSE guestToken
                    /\ pending' = (pending \ {op}) \cup
                          {Issue("handleAddToCart.add", "handleAddToCart",
                                 [method |-> "POST",
                                  url |-> AddUrl(r.data.id, c.token, guest),
                                  headers |-> JsonHeaders(c.token),
                                  body |-> [kind |-> "item",
                                            productId |-> c.card,
                                            quantity |-> 1]],
                                 [c EXCEPT !.guestToken = guest])}
                    /\ sent' = sent + 1
                    /\ UNCHANGED cards
        /\ serverGuests' = IF r.data.present /\ OpensGuestCart(op.request)
                           THEN serverGuests + 1 ELSE serverGuests
        /\ last' = [op |-> "handleAddToCart.cart.settled", call |-> op,
                    response |-> r,
                    before |-> [guestToken |-> guestToken, token |-> token]]
        /\ UNCHANGED <<token, calls>>
        /\ CardFrame

\* every way POST /cart/:id/items can settle; the client reads no body
AddResponses ==
    {Rejected, HttpError, Envelope(FALSE, NoData), Envelope(TRUE, NoData)}

\* handleAddToCart from the settled POST to its end
AddSettle ==
    \E op \in pending : \E r \in AddResponses :
        /\ op.handler = "handleAddToCart.add"
        /\ pending' = pending \ {op}
        /\ cards' = [cards EXCEPT
                        ![op.closure.card].toast =
                            IF Failed(r) THEN AddToCartErrorToast
                            ELSE AddedToast(op.closure.card),
                        ![op.closure.card].isAddingToCart = FALSE]
        /\ last' = [op |-> "handleAddToCart.add.settled", call |-> op,
                    response |-> r,
                    before |-> [guestToken |-> guestToken, token |-> token]]
        /\ UNCHANGED <<token, guestToken, serverGuests, sent, calls>>
        /\ CardFrame

AddToCartInit ==
    /\ lineItems = <<>>
    /\ summary = NoSummary
    /\ token \in Tokens
    /\ guestToken \in GuestTokens
    /\ serverQty = [i \in {ServerItemIds[k] : k \in DOMAIN ServerItemIds} |-> 1]
    /\ cartPage = CartPageInitial
    /\ checkout = CheckoutInitial
    /\ route = Route("/", Null)
    /\ effects = {}
    /\ pending = {}
    /\ sent = 0
    /\ calls = 0
    /\ cards \in [CardIds -> {Card(TRUE), Card(FALSE)}]
    /\ catalog = CatalogInitial
    /\ serverGuests = IF guestToken = Null THEN 0 ELSE 1
    /\ last = NoStep

AddToCartNext ==
    \/ ClickAddToCart
    \/ CartLookupSettle
    \/ AddSettle

SpecAddToCart == AddToCartInit /\ [][AddToCartNext]_vars

(***************************************************************************)
(* FeaturedProductsSection (CheckoutPage.tsx 391-523)                      *)
(***************************************************************************)
MaxProducts == 3

fallbackProducts ==
    <<[id |-> "1", name |-> "Golden Delicious apple sapling",
       price |-> 850000, originalPrice |-> 1000000,
       image |-> "photo-1560806887", category |-> "Fruit saplings",
       rating |-> 480],
      [id |-> "2", name |-> "Organic NPK fertiliser", price |-> 450000,
       image |-> "photo-1416879595", category |-> "Fertiliser",
       rating |-> 460],
      [id |-> "3", name |-> "Smart drip irrigation system",
       price |-> 2500000, originalPrice |-> 3000000,
       image |-> "photo-1563514227", category |-> "Irrigation",
       rating |-> 490],
      [id |-> "4", name |-> "Greenhouse tomato seed", price |-> 180000,
       image |-> "photo-1592921870", category |-> "Seed",
       rating |-> 470]>>

DefaultProductImage == "photo-1560806887"
DefaultCategory == "Product"

\* 4.5 + Math.random() * 0.5, in hundredths: any value of [4.5, 5.0)
Ratings == {450, 475, 499}

\* the API product flattened into the card's props
MapProduct(p, rating) ==
    [id |-> p.id,
     name |-> p.title,
     price |-> p.price,
     image |-> IF p.images # <<>> /\ p.images[1] # ""
               THEN p.images[1] ELSE DefaultProductImage,
     category |-> IF p.category # "" THEN p.category ELSE DefaultCategory,
     rating |-> rating]

MapProducts(list, ratings) ==
    [i \in DOMAIN list |-> MapProduct(list[i], ratings[i])]

\* the product pages GET /products?limit= can answer with
ProductLists ==
    UNION {[1..n -> {ServerProduct(ServerItemIds[i]) :
                        i \in DOMAIN ServerItemIds}] : n \in 0..MaxProducts}

\* every way GET /products can settle
ProductResponses ==
    {Rejected, HttpError, InvalidJson,
     Envelope(FALSE, NoData), Envelope(TRUE, NoData),
     Envelope(TRUE, [NoData EXCEPT !.present = TRUE])} \cup
    {Envelope(s, [NoData EXCEPT !.present = TRUE, !.isArray = TRUE,
                                !.list = l]) :
        s \in BOOLEAN, l \in ProductLists}

CatalogFrame ==
    UNCHANGED <<lineItems, summary, token, guestToken, serverQty, cartPage,
                checkout, route, calls, cards, serverGuests>>

\* fetchProducts up to its await, run once by useEffect
FetchProducts ==
    /\ "FeaturedProductsSection" \in effects
    /\ effects' = effects \ {"FeaturedProductsSection"}
    /\ pending' = pending \cup
          {Issue("fetchProducts", "fetchProducts",
                 [method |-> "GET",
                  url |-> Url(ApiBaseUrl, <<"products?limit=8">>, Null),
                  headers |-> BareHeaders(Null), body |-> NoBody],
                 NoClosure)}
    /\ sent' = sent + 1
    /\ last' = [op |-> "fetchProducts"]
    /\ UNCHANGED catalog
    /\ CatalogFrame

\* variant: the fallback list is installed by the catch block only
FetchProductsSettledCatchOnly(section, r, ratings) ==
    IF r.net = "rejected" \/ (r.ok /\ ~r.json)
    THEN [products |-> fallbackProducts, loading |-> FALSE]
    ELSE IF r.ok /\ r.success /\ r.data.isArray
    THEN [products |-> MapProducts(r.data.list, ratings), loading |-> FALSE]
    ELSE [section EXCEPT !.loading = FALSE]

\* fetchProducts from the settled fetch to its end
FetchProductsSettled(section, r, ratings) ==
    IF r.net = "rejected" \/ (r.ok /\ ~r.json)
    THEN \* fetch rejected or response.json() threw: the catch block
         [products |-> fallbackProducts, loading |-> FALSE]
    ELSE IF r.ok /\ r.success /\ r.data.isArray
    THEN [products |-> MapProducts(r.data.list, ratings), loading |-> FALSE]
    ELSE [products |-> fallbackProducts, loading |-> FALSE]

FetchProductsSettle ==
    \E op \in pending : \E r \in ProductResponses :
        \E ratings \in [DOMAIN r.data.list -> Ratings] :
            /\ op.handler = "fetchProducts"
            /\ pending' = pending \ {op}
            /\ catalog' = FetchProductsSettled(catalog, r, ratings)
            /\ last' = [op |-> "fetchProducts.settled", call |-> op,
                        response |-> r]
            /\ UNCHANGED <<effects, sent>>
            /\ CatalogFrame

CatalogInit ==
    /\ lineItems = <<>>
    /\ summary = NoSummary
    /\ token \in Tokens
    /\ guestToken \in GuestTokens
    /\ serverQty = [i \in {ServerItemIds[k] : k \in DOMAIN ServerItemIds} |-> 1]
    /\ cartPage = CartPageInitial
    /\ checkout = CheckoutInitial
    /\ route = Route("/", Null)
    /\ effects = {"FeaturedProductsSection"}
    /\ pending = {}
    /\ sent = 0
    /\ calls = 0
    /\ cards = NoCards
    /\ catalog = CatalogInitial
    /\ serverGuests = 0
    /\ last = NoStep

CatalogNext == FetchProducts \/ FetchProductsSettle

SpecCatalog == CatalogInit /\ [][CatalogNext]_vars

(***************************************************************************)
(* Claims about the pricing computation.                                   *)
(***************************************************************************)
EmptyListPriced == summary.view # "none" /\ lineItems = <<>>

\* C1 as stated: for an empty item list the computation of either view
\* yields subtotal = 0, shipping = 0, tax = 0 and total = 0.
C1_EmptyCartAllZero ==
    EmptyListPriced =>
        /\ summary.subtotal = 0
        /\ summary.shipping = 0
        /\ summary.tax = 0
        /\ summary.total = 0

\* C1 amended: for an empty item list the computation of either view yields
\* subtotal = 0 and tax = 0, but shipping is the flat fee (0 is not above the
\* free-shipping threshold) and so total is the flat fee.
C1_EmptyCartFlatFee ==
    EmptyListPriced =>
        /\ summary.subtotal = 0
        /\ summary.tax = 0
        /\ summary.shipping = ShippingFee
        /\ summary.total = ShippingFee

C1_Witness == EmptyListPriced /\ summary.view = "checkout"

\* the sum over the items of price times quantity, from the last item back
RECURSIVE SumOfLines(_)
SumOfLines(list) ==
    IF list = <<>> THEN 0
    ELSE list[Len(list)].price * list[Len(list)].quantity
             + SumOfLines(SubSeq(list, 1, Len(list) - 1))

\* the four values a view shows
Shown == [subtotal |-> summary.subtotal, shipping |-> summary.shipping,
          tax |-> summary.tax, total |-> summary.total]

\* C15: for every item list, the subtotal shown is the sum over the items of
\* price times quantity, the total shown is subtotal + shipping + tax, and
\* whichever view rendered the summary, the other view computes the same four
\* values for the list.
C15_TotalsAndViewsAgree ==
    summary.view # "none" =>
        /\ summary.subtotal = SumOfLines(lineItems)
        /\ summary.total = summary.subtotal + summary.shipping + summary.tax
        /\ Shown = CartPagePricing(lineItems)
        /\ Shown = CheckoutPagePricing(lineItems)

C15_Witness ==
    /\ summary.view = "cart"
    /\ Len(lineItems) = 2
    /\ lineItems[1].quantity = 2
    /\ lineItems[1].price # lineItems[2].price
    /\ Shown = CheckoutPagePricing(lineItems)

\* C16: shipping is 0 exactly when the subtotal is strictly greater than
\* 1,000,000 and 50,000 otherwise; a subtotal of 1,000,000 pays 50,000 and a
\* subtotal of 1,000,001 pays nothing.
C16_ShippingBoundary ==
    summary.view # "none" =>
        /\ summary.shipping = 0 <=> summary.subtotal > 1000000
        /\ summary.shipping = 50000 <=> summary.subtotal <= 1000000
        /\ summary.subtotal = 1000000 => summary.shipping = 50000
        /\ summary.subtotal = 1000001 => summary.shipping = 0

C16_Witness ==
    /\ summary.view = "checkout"
    /\ summary.subtotal = 1000000
    /\ summary.shipping = 50000

\* the cart of the end-to-end scenario
ScenarioCart ==
    <<[price |-> 250000, quantity |-> 2], [price |-> 150000, quantity |-> 1]>>

\* C17: the tax shown is 9% of the subtotal rounded to the nearest integer,
\* halves rounded up: floor((9 * subtotal + 50) / 100); a subtotal of 100,000
\* is taxed 9,000, and the scenario cart shows subtotal 650000, shipping
\* 50000, tax 58500 and total 758500.
C17_TaxRoundsHalfUp ==
    summary.view # "none" =>
        /\ summary.tax = (9 * summary.subtotal + 50) \div 100
        /\ summary.subtotal = 100000 => summary.tax = 9000
        /\ lineItems = ScenarioCart =>
               Shown = [subtotal |-> 650000, shipping |-> 50000,
                        tax |-> 58500, total |-> 758500]

C17_Witness ==
    /\ summary.view = "cart"
    /\ lineItems = ScenarioCart
    /\ summary.total = 758500

(***************************************************************************)
(* Claims about the cart page.                                             *)
(***************************************************************************)
\* the requests in flight that the last step issued
IssuedByLast == {op \in pending : op.n = sent}

\* list is kept with every item whose id is not itemId, in order, and no other
IsListWithout(list, kept, itemId) ==
    LET idx == {i \in DOMAIN kept : kept[i].id # itemId}
    IN  /\ Len(list) = Cardinality(idx)
        /\ \A i \in idx : list[Cardinality({j \in idx : j <= i})] = kept[i]

\* C2: updateQuantity(itemId, q) with q > 0 issues one PUT request; when it
\* settles, with success or failure, the item has quantity q in the local
\* cart and every other item is as it was in the cart the handler was invoked
\* on; on failure the error message is set and the quantity held by the
\* server is what it was.
C2_UpdateQuantityOptimistic ==
    /\ (last.op = "updateQuantity" /\ last.newQuantity > 0) =>
          /\ IssuedByLast = {last.issued}
          /\ last.issued.request.method = "PUT"
          /\ last.issued.request.url.path = <<"cart", "items", last.itemId>>
          /\ last.issued.request.body =
                [kind |-> "quantity", quantity |-> last.newQuantity]
    /\ last.op = "updateQuantity.settled" =>
          LET c == last.call.closure
          IN  /\ \E i \in DOMAIN cartPage.cartItems :
                    cartPage.cartItems[i].id = c.itemId
              /\ Len(cartPage.cartItems) = Len(c.cartItems)
              /\ \A i \in DOMAIN cartPage.cartItems :
                    IF c.cartItems[i].id = c.itemId
                    THEN cartPage.cartItems[i] =
                            [c.cartItems[i] EXCEPT !.quantity = c.newQuantity]
                    ELSE cartPage.cartItems[i] = c.cartItems[i]
              /\ last.failed =>
                    /\ cartPage.error = UpdateQuantityError
                    /\ serverQty = last.before.serverQty

C2_Witness ==
    /\ last.op = "updateQuantity.settled"
    /\ last.failed
    /\ Len(cartPage.cartItems) = 2
    /\ last.before.error = Null
    /\ \E i \in DOMAIN cartPage.cartItems :
          /\ cartPage.cartItems[i].id = last.call.closure.itemId
          /\ cartPage.cartItems[i].quantity = 2
          /\ last.call.closure.cartItems[i].quantity = 1

\* C3: removeItem(itemId) issues one DELETE request; when it settles, with
\* success or failure, the item is absent from the local cart and every other
\* item is as it was in the cart the handler was invoked on; on failure the
\* error message is set.
C3_RemoveItemOptimistic ==
    /\ last.op = "removeItem" =>
          /\ IssuedByLast = {last.issued}
          /\ last.issued.request.method = "DELETE"
          /\ last.issued.request.url.path = <<"cart", "items", last.itemId>>
          /\ last.issued.request.body = NoBody
    /\ last.op = "removeItem.settled" =>
          LET c == last.call.closure
          IN  /\ \A i \in DOMAIN cartPage.cartItems :
                    cartPage.cartItems[i].id # c.itemId
              /\ IsListWithout(cartPage.cartItems, c.cartItems, c.itemId)
              /\ last.failed => cartPage.error = RemoveItemError

C3_Witness ==
    /\ last.op = "removeItem.settled"
    /\ last.call.origin = "removeItem"
    /\ last.failed
    /\ last.before.error = Null
    /\ Len(last.call.closure.cartItems) = 2
    /\ Len(cartPage.cartItems) = 1

\* C4: updateQuantity(id, q) with q <= 0 issues the request removeItem(id)
\* issues from the same state (a DELETE, never a PUT), and settles in the
\* local state (item list and error message) removeItem(id) settles in under
\* the same response.
C4_UpdateToZeroIsRemove ==
    /\ (last.op = "updateQuantity" /\ last.newQuantity <= 0) =>
          /\ IssuedByLast = {last.issued}
          /\ last.issued.request.method = "DELETE"
          /\ \A op \in pending : op.n = sent => op.request.method # "PUT"
          /\ [last.issued EXCEPT !.origin = "removeItem"] =
                [RemoveItemCall("removeItem", last.itemId) EXCEPT !.n = sent]
    /\ (last.op = "removeItem.settled"
            /\ last.call.origin = "updateQuantity") =>
          LET found == [cartPage EXCEPT !.cartItems = last.before.cartItems,
                                        !.error = last.before.error]
          IN  /\ cartPage =
                    RemoveItemSettled(found, last.call.closure, last.response)
              /\ cartPage.cartItems =
                    Without(last.call.closure.cartItems,
                            last.call.closure.itemId)
              /\ cartPage.error = IF last.failed THEN RemoveItemError
                                  ELSE last.before.error

C4_Witness ==
    /\ last.op = "removeItem.settled"
    /\ last.call.origin = "updateQuantity"
    /\ ~last.failed
    /\ Len(last.call.closure.cartItems) = 2
    /\ Len(cartPage.cartItems) = 1

\* the failures of GET /cart the claim lists: network error, non-ok status,
\* or a body that is no success envelope with data
FetchCartFailed(r) ==
    r.net = "rejected" \/ ~r.ok \/ ~r.json \/ ~(r.success /\ r.data.present)

\* C5: whenever fetchCart fails it completes with the mock cart in the local
\* cart, a user-visible error string set, and loading false.
C5_FetchFailureFallsBack ==
    (last.op = "fetchCart.settled" /\ FetchCartFailed(last.response)) =>
        /\ cartPage.cartItems = mockCartItems
        /\ cartPage.cartItems # <<>>
        /\ cartPage.error # Null
        /\ ~cartPage.loading

(***************************************************************************)
(* Claims about the checkout page.                                         *)
(***************************************************************************)
\* handlePlaceOrder was just invoked on a page whose guards (114-122) fail
PreconditionViolated(page) ==
    \/ page.cartId = Null
    \/ (Len(page.addresses) > 0 /\ page.selectedAddressId = "")

\* C6: placeOrder invoked with no cart id loaded, or with saved addresses
\* and none selected, sets an error message and returns: no request is
\* issued and submitting stays false.
C6_PreconditionsAbort ==
    (last.op = "handlePlaceOrder"
        /\ PreconditionViolated(last.before.page)) =>
        /\ checkout.error \in {CartNotFoundError, SelectAddressError}
        /\ checkout.error = IF last.before.page.cartId = Null
                            THEN CartNotFoundError ELSE SelectAddressError
        /\ sent = last.before.sent
        /\ pending = last.before.pending
        /\ ~checkout.submitting
        /\ route = last.before.route

C6_Witness ==
    /\ last.op = "handlePlaceOrder"
    /\ last.before.page.cartId # Null
    /\ Len(last.before.page.addresses) > 0
    /\ last.before.page.selectedAddressId = ""
    /\ last.before.page.error = Null
    /\ token # Null

\* C7: placeOrder invoked with its preconditions met but no bearer token
\* issues no order POST, redirects to the login route, leaves the guest
\* token untouched and ends with submitting = false.
C7_NoTokenRedirects ==
    (last.op = "handlePlaceOrder"
        /\ ~PreconditionViolated(last.before.page)
        /\ token = Null) =>
        /\ sent = last.before.sent
        /\ pending = last.before.pending
        /\ \A op \in pending : op.request.method # "POST"
        /\ route.path = "/login"
        /\ guestToken = last.before.guestToken
        /\ ~checkout.submitting

C7_Witness ==
    /\ last.op = "handlePlaceOrder"
    /\ ~PreconditionViolated(last.before.page)
    /\ token = Null
    /\ guestToken # Null
    /\ last.before.route.path = "/checkout"

\* C8: the guest token is removed and the client navigates to the
\* order-confirmation view with the returned order id exactly when the order
\* POST returned an ok status with a success envelope; in every other
\* outcome of placeOrder the guest token is unchanged and there is no
\* navigation to the confirmation view.
C8_GuestTokenClearedIffAccepted ==
    /\ last.op = "handlePlaceOrder.settled" =>
          IF OrderAccepted(last.response)
          THEN /\ guestToken = Null
               /\ route = Route("/order-success", last.response.data.id)
          ELSE /\ guestToken = last.before.guestToken
               /\ route.path # "/order-success"
    /\ last.op = "handlePlaceOrder" =>
          /\ guestToken = last.before.guestToken
          /\ route.path # "/order-success"

\* C9: when the order request fails, the checkout is back in the ready state
\* with a non-empty error message, submitting = false, and the cart id and
\* the selected address unchanged; placeOrder invoked again then issues a
\* new POST.
C9_FailureIsRetryable ==
    /\ (last.op = "handlePlaceOrder.settled"
            /\ ~OrderAccepted(last.response)) =>
          /\ ~checkout.submitting
          /\ ~checkout.loading
          /\ checkout.error \notin {Null, ""}
          /\ checkout.cartId = last.before.page.cartId
          /\ checkout.selectedAddressId =
                last.before.page.selectedAddressId
          /\ route.path = "/checkout"
          /\ PlaceOrderPath = "post"
    /\ (last.op = "handlePlaceOrder" /\ last.retry
            /\ ~OrderAccepted(last.prior)) =>
          /\ last.path = "post"
          /\ IssuedByLast = {last.issued}
          /\ last.issued.request.method = "POST"
          /\ sent = last.before.sent + 1
          /\ checkout.submitting

C9_Witness ==
    /\ last.op = "handlePlaceOrder"
    /\ last.retry
    /\ ~OrderAccepted(last.prior)
    /\ last.prior.success = FALSE
    /\ last.prior.ok
    /\ last.issued \in pending

\* a step that puts an order POST in flight
OrderPosted ==
    \E op \in pending' \ pending : op.handler = "handlePlaceOrder"

\* C10: loading -> ready -> submitting -> (success | ready-with-error):
\* loading eventually becomes false and stays false whatever the cart and
\* address requests return; an order is posted, and submitting entered, only
\* from the ready state; every submission leaves the submitting phase once
\* its request settles, in success (navigation to the confirmation view) or
\* in ready with an error set.
C10_CheckoutPhases ==
    /\ <>[](~checkout.loading)
    /\ [][(OrderPosted \/ (~checkout.submitting /\ checkout.submitting')) =>
            /\ ~checkout.loading
            /\ ~checkout.submitting
            /\ route.path = "/checkout"
            /\ checkout.submitting'
            /\ OrderPosted]_vars
    /\ [](last.op = "handlePlaceOrder.settled" =>
            /\ ~checkout.submitting
            /\ \/ route.path = "/order-success"
               \/ (~checkout.loading /\ checkout.error # Null))
    /\ (checkout.submitting ~>
            (~checkout.submitting /\ (route.path = "/order-success"
                                        \/ checkout.error # Null)))

C10_Witness ==
    /\ last.op = "handlePlaceOrder.settled"
    /\ route.path = "/order-success"
    /\ ~checkout.submitting
    /\ ~checkout.loading
    /\ Len(checkout.addresses) > 0

(***************************************************************************)
(* Claims about the identity a cart request carries.                       *)
(***************************************************************************)
\* C11: in every cart operation, a request issued while a bearer token is in
\* client storage identifies the cart by the bearer token only: the guest
\* token is sent only when no bearer token is present.
C11_BearerTakesPrecedence ==
    \A op \in pending :
        (op.request.method = "GET" /\ op.request.url.path = <<"cart">>
            /\ op.request.headers.authorization # Null) =>
            op.request.url.guestToken = Null

(***************************************************************************)
(* Claims about the product card.                                          *)
(***************************************************************************)
\* C12: without bearer token, a guest token held in client storage is never
\* overwritten by a different one, whichever way add-to-cart operations
\* started from different product cards interleave: the step that ends a
\* cart lookup leaves a stored guest token as it found it.
C12_GuestTokenWrittenOnce ==
    (last.op = "handleAddToCart.cart.settled" /\ last.before.token = Null
        /\ last.before.guestToken # Null) =>
        guestToken = last.before.guestToken

(***************************************************************************)
(* Claims about error reporting.                                           *)
(***************************************************************************)
\* the failure kinds of a request: network failure, non-ok HTTP status,
\* malformed body, unsuccessful envelope
RequestFailed(r) == r.net = "rejected" \/ ~r.ok \/ ~r.json \/ ~r.success

\* C13: in each operation every kind of failure of its request sets the
\* operation's user-visible error, and always to the one error string of
\* that operation: the cart page's three strings for fetchCart,
\* updateQuantity and removeItem, the load error for both requests of
\* loadCheckoutData, the order error for handlePlaceOrder.
C13_OneErrorPerOperation ==
    /\ (last.op = "fetchCart.settled" /\ RequestFailed(last.response)) =>
           cartPage.error = FetchCartError
    /\ (last.op = "updateQuantity.settled" /\ RequestFailed(last.response)) =>
           cartPage.error = UpdateQuantityError
    /\ (last.op = "removeItem.settled" /\ RequestFailed(last.response)) =>
           cartPage.error = RemoveItemError
    /\ (last.op \in {"loadCheckoutData.cart.settled",
                     "loadCheckoutData.address.settled"}
            /\ RequestFailed(last.response)) =>
           checkout.error = LoadCheckoutError
    /\ (last.op = "handlePlaceOrder.settled"
            /\ RequestFailed(last.response)) =>
           checkout.error = OrderRetryError

(***************************************************************************)
(* Claims about the featured products.                                     *)
(***************************************************************************)
\* the product request failed: network error, non-ok status, unreadable
\* body, envelope without success or whose data is not a list
ProductRequestFailed(r) ==
    r.net = "rejected" \/ ~r.ok \/ ~r.json \/ ~r.success \/ ~r.data.isArray

\* C14: when the product request fails in any way, the product list after
\* fetchProducts completes is exactly the fixed four-item fallback list,
\* loading is false, and one request was sent and none is in flight; at no
\* time has more than one request been sent.
C14_FailureShowsFallback ==
    /\ sent <= 1
    /\ (last.op = "fetchProducts.settled"
            /\ ProductRequestFailed(last.response)) =>
           /\ catalog.products = fallbackProducts
           /\ Len(catalog.products) = 4
           /\ ~catalog.loading
           /\ sent = 1
           /\ pending = {}
           /\ effects = {}

C14_Witness ==
    /\ last.op = "fetchProducts.settled"
    /\ last.response = HttpError
    /\ catalog.products = fallbackProducts
    /\ ~catalog.loading

(***************************************************************************)
(* Claims about the requests of the checkout page.                         *)
(***************************************************************************)
\* C18: the order request issued by handlePlaceOrder is determined by the
\* cart id and the bearer token alone: it is a POST to the orders endpoint
\* whose headers carry the token and whose body carries the cart id and no
\* other field, whatever address, payment method and notes the form holds.
C18_OrderCarriesCartIdOnly ==
    (last.op = "handlePlaceOrder" /\ last.path = "post") =>
        LET request == last.issued.request
        IN  /\ last.issued \in pending
            /\ DOMAIN request = {"method", "url", "headers", "body"}
            /\ request.method = "POST"
            /\ request.url.path = <<"orders">>
            /\ request.url.guestToken = Null
            /\ request.headers = JsonHeaders(token)
            /\ request.body =
                   [kind |-> "cartId", cartId |-> last.before.page.cartId]

C18_Witness ==
    /\ last.op = "handlePlaceOrder"
    /\ last.path = "post"
    /\ last.before.page.selectedAddressId # ""
    /\ last.before.page.paymentMethod # "cash_on_delivery"
    /\ last.before.page.notes # ""

\* C19: every request the client issues is addressed to the configured API
\* base URL followed by the endpoint path, the order POST included.
C19_RequestsGoToBaseUrl ==
    \A op \in pending : op.request.url.base = ApiBaseUrl

\* the address requests in flight
AddressRequests == {op \in pending : op.handler = "loadCheckoutData.address"}

\* C20: when no bearer token is present at checkout load, no address request
\* is issued, the address list stays empty and no address is selected; an
\* address request is in flight only for a bearer token, whose Authorization
\* header it carries, and only once the mount effect has run and the cart
\* request, sent before it, has completed.
C20_AddressesNeedToken ==
    /\ token = Null =>
           /\ AddressRequests = {}
           /\ checkout.addresses = <<>>
           /\ checkout.selectedAddressId = ""
    /\ \A op \in AddressRequests :
           /\ op.closure.token # Null
           /\ op.request.headers.authorization = op.closure.token
           /\ "CheckoutPage" \notin effects
           /\ op.n > 1
           /\ \A other \in pending : other.handler # "loadCheckoutData.cart"

C20_Witness ==
    /\ token = Null
    /\ last.op = "loadCheckoutData.cart.settled"
    /\ checkout.cartId # Null
    /\ checkout.cartItems # <<>>
    /\ ~checkout.loading

(***************************************************************************)
(* Claims about operations in flight together.                             *)
(***************************************************************************)
\* the items of list other than the one with this id, in order
OtherItems(list, itemId) == SelectSeq(list, LAMBDA item : item.id # itemId)

\* C21: when updateQuantity or removeItem completes, every other item of the
\* local cart is left as the completion found it: a change another operation
\* made while this one was in flight is not undone, neither an old quantity
\* restored nor a removed item brought back from the captured list.
C21_CompletionKeepsOtherItems ==
    last.op \in {"updateQuantity.settled", "removeItem.settled"} =>
        OtherItems(cartPage.cartItems, last.call.closure.itemId) =
            OtherItems(last.before.cartItems, last.call.closure.itemId)

\* the order POSTs in flight
OrderRequests == {op \in pending : op.handler = "handlePlaceOrder"}

\* C22: at most one order POST is in flight at any time: while one is in
\* flight submitting is true and the place-order control is disabled, a
\* handlePlaceOrder that posts found none in flight, and one invocation
\* sends at most one request, its completion none.
C22_OneOrderInFlight ==
    /\ Cardinality(OrderRequests) <= 1
    /\ OrderRequests # {} => checkout.submitting
    /\ checkout.submitting => PlaceOrderDisabled
    /\ last.op = "handlePlaceOrder" =>
           /\ ~last.before.page.submitting
           /\ \A op \in last.before.pending : op.handler # "handlePlaceOrder"
           /\ sent = last.before.sent + (IF last.path = "post" THEN 1 ELSE 0)
    /\ last.op = "handlePlaceOrder.settled" => sent = last.before.sent

C22_Witness ==
    /\ OrderRequests # {}
    /\ checkout.submitting
    /\ CheckoutFormShown
    /\ last.op = "handlePlaceOrder"
    /\ last.via = "button"
    /\ calls < MaxCalls

=============================================================================
